---- MODULE Spec2Model ----
(***************************************************************************)
(* Model of RockstarPlugin (src/src/plugin.py): the session handlers, the  *)
(* ownership detector (backward scan of launcher.log), the local presence  *)
(* detector, the two periodic passes started by tick(), and the host       *)
(* requests launch / install / uninstall.                                  *)
(*                                                                         *)
(* Python lists are sequences; Python index [0] is TLA+ index [1].         *)
(* The plugin runs on one asyncio event loop: a handler runs atomically    *)
(* from one await that really suspends to the next one.                    *)
(***************************************************************************)
EXTENDS Naturals, Sequences, FiniteSets

VARIABLES
    authenticated,           \* self._http_client.is_authenticated()
    owned_games_cache,       \* self.owned_games_cache      (list of Game)
    local_games_cache,       \* self.local_games_cache      (list of LocalGame)
    running_games_pids,      \* self.running_games_pids     (title_id -> [pid, True])
    checking_for_new_games,  \* self.checking_for_new_games
    updating_game_statuses,  \* self.updating_game_statuses
    tasks,                   \* the event loop's tasks made by tick(), per coroutine
    last                     \* history: the handler that ran last, its inputs,
                             \* and the notifications it sent to the host

vars == <<authenticated, owned_games_cache, local_games_cache, running_games_pids,
          checking_for_new_games, updating_game_statuses, tasks, last>>

---------------------------------------------------------------------------
(* Bounds of the model *)

\* longest launcher.log a pass reads, in lines
MaxLogLen == 3
\* most tasks of one coroutine the event loop holds at a time
MaxTasks == 2

---------------------------------------------------------------------------
(* The title catalog (game_cache.games_cache) *)

games_cache ==
    [ A |-> [rosTitleId |-> "rosA", friendlyName |-> "Title A", licenseInfo |-> "lic"],
      B |-> [rosTitleId |-> "rosB", friendlyName |-> "Title B", licenseInfo |-> "lic"] ]

\* list(games_cache): the dict's iteration order
catalog_keys == <<"A", "B">>

TitleIds == DOMAIN games_cache

\* len(games_cache)
total_games_count == Len(catalog_keys)

\* game_cache.get_game_title_id_from_ros_title_id
get_game_title_id_from_ros_title_id(ros) ==
    CHOOSE t \in TitleIds : games_cache[t].rosTitleId = ros

\* Game(rosTitleId, friendlyName, None, licenseInfo); raises KeyError when
\* title_id is no key of games_cache (callers test KeyErrorRaised first)
create_game_from_title_id(title_id) ==
    [ game_id      |-> games_cache[title_id].rosTitleId,
      game_title   |-> games_cache[title_id].friendlyName,
      license_info |-> games_cache[title_id].licenseInfo ]

\* self.games_cache[title_id] with title_id not a key
KeyErrorRaised(title_id) == title_id \notin DOMAIN games_cache

create_local_game_from_title_id(title_id, is_running, is_installed) ==
    IF is_running
    THEN [game_id |-> games_cache[title_id].rosTitleId, local_game_state |-> "Running"]
    ELSE IF is_installed
    THEN [game_id |-> games_cache[title_id].rosTitleId, local_game_state |-> "Installed"]
    ELSE [game_id |-> games_cache[title_id].rosTitleId, local_game_state |-> "None_"]

\* create_total_games_cache
total_games_cache ==
    [i \in 1..Len(catalog_keys) |-> create_game_from_title_id(catalog_keys[i])]

---------------------------------------------------------------------------
(* Sequences as Python lists *)

Range(s) == {s[i] : i \in 1..Len(s)}

\* x in s
In(x, s) == x \in Range(s)

\* the subsequence of s of the elements satisfying Keep (a list comprehension)
RECURSIVE Filter(_, _)
Filter(s, keep) ==
    IF s = <<>> THEN <<>>
    ELSE LET rest == Filter(Tail(s), keep) IN
         IF Head(s) \in keep THEN <<Head(s)>> \o rest ELSE rest

---------------------------------------------------------------------------
(* Notifications to the host (galaxy.api.plugin.Plugin) *)

AddGame(game)          == [type |-> "add_game", game_id |-> game.game_id, state |-> "-"]
RemoveGame(ros)        == [type |-> "remove_game", game_id |-> ros, state |-> "-"]
UpdateLocalGameStatus(local_game) ==
    [type |-> "update_local_game_status", game_id |-> local_game.game_id,
     state |-> local_game.local_game_state]

---------------------------------------------------------------------------
(* launcher.log *)

\* One line of the log, by what get_owned_games reads of it:
\*   launcher     "launcher" in line
\*   on_branch    "on branch " in line
\*   no_branches  "no branches!" in line
\*   title_id     line[65:75].strip()
LogLine(l, ob, nb, t) ==
    [launcher |-> l, on_branch |-> ob, no_branches |-> nb, title_id |-> t]

\* "X" is an identifier that is no catalog key; the last line is one of the
\* launcher's own lines that mentions a branch
LogLines ==
    { LogLine(FALSE, TRUE, FALSE, "A"),
      LogLine(FALSE, TRUE, FALSE, "B"),
      LogLine(FALSE, TRUE, FALSE, "X"),
      LogLine(FALSE, FALSE, TRUE, "A"),
      LogLine(FALSE, FALSE, TRUE, "B"),
      LogLine(TRUE, TRUE, FALSE, "A") }

\* log[1] is the oldest line, log[Len(log)] the most recent one
Logs == UNION { [1..n -> LogLines] : n \in 0..MaxLogLen }

---------------------------------------------------------------------------
(* Ownership detector: get_owned_games *)

\* the locals of get_owned_games before the loop; the cache is self.owned_games_cache
ScanInit(cache) ==
    [ owned_title_ids     |-> <<>>,
      cache               |-> cache,
      checked_games_count |-> 0,
      raised              |-> FALSE,    \* KeyError left the function
      stopped             |-> FALSE,    \* the break was taken
      lines_read          |-> 0 ]

\* ScanLine with the catalog lookup of line 170 left out: the game is built from
\* the identifier as read
ScanLine_NoLookup(st, line) ==
    LET read == [st EXCEPT !.lines_read = @ + 1]
        game == [game_id |-> line.title_id, game_title |-> line.title_id,
                 license_info |-> "lic"]
        after ==
            IF (~line.launcher) /\ line.on_branch
            THEN [read EXCEPT !.owned_title_ids = Append(@, line.title_id),
                              !.cache = IF In(game, @) THEN @ ELSE Append(@, game),
                              !.checked_games_count = @ + 1]
            ELSE IF line.no_branches
            THEN [read EXCEPT !.checked_games_count = @ + 1]
            ELSE read
    IN  IF after.checked_games_count = total_games_count
        THEN [after EXCEPT !.stopped = TRUE]
        ELSE after

\* One iteration of `for line in frb`
ScanLine(st, line) ==
    LET read == [st EXCEPT !.lines_read = @ + 1]
        after ==
            IF (~line.launcher) /\ line.on_branch
            THEN IF KeyErrorRaised(line.title_id)
                 THEN [read EXCEPT !.owned_title_ids = Append(@, line.title_id),
                                   !.raised = TRUE]
                 ELSE LET game == create_game_from_title_id(line.title_id) IN
                      [read EXCEPT !.owned_title_ids = Append(@, line.title_id),
                                   !.cache = IF In(game, @) THEN @ ELSE Append(@, game),
                                   !.checked_games_count = @ + 1]
            ELSE IF line.no_branches
            THEN [read EXCEPT !.checked_games_count = @ + 1]
            ELSE read
    IN  IF (~after.raised) /\ after.checked_games_count = total_games_count
        THEN [after EXCEPT !.stopped = TRUE]
        ELSE after

\* FileReadBackwards: from line i down to line 1
RECURSIVE ScanBackwards(_, _, _)
ScanBackwards(st, log, i) ==
    IF i = 0 \/ st.raised \/ st.stopped
    THEN st
    ELSE ScanBackwards(ScanLine(st, log[i]), log, i - 1)

\* get_owned_games sending no remove_game at all
RemoveAllBut_Nothing(owned_title_ids) == <<>>

\* remove_game for every catalog key outside owned_title_ids, in catalog order
RemoveAllBut(owned_title_ids) ==
    LET keys == Filter(catalog_keys, TitleIds \ Range(owned_title_ids))
    IN  [i \in 1..Len(keys) |-> RemoveGame(games_cache[keys[i]].rosTitleId)]

\* the missing-log branch filling the cache only when it is empty
AppendMissing_OnlyWhenEmpty(cache, keys) ==
    IF cache = <<>>
    THEN [i \in 1..Len(keys) |-> create_game_from_title_id(keys[i])]
    ELSE cache

\* the log is missing: every catalog game not yet in the cache is appended
RECURSIVE AppendMissing(_, _)
AppendMissing(cache, keys) ==
    IF keys = <<>> THEN cache
    ELSE LET game == create_game_from_title_id(Head(keys)) IN
         AppendMissing(IF In(game, cache) THEN cache ELSE Append(cache, game), Tail(keys))

\* get_owned_games on the cache, with is_authenticated() = is_auth and
\* os.path.exists(log_file) = log_exists.
\*   cache    self.owned_games_cache afterwards
\*   rebound  self.owned_games_cache was assigned a new list object
\*   raised   the call raised
\*   events   the remove_game notifications
\*   detected the titles the call found owned
get_owned_games(cache, is_auth, log_exists, log) ==
    IF ~is_auth
    THEN [ cache |-> <<>>, rebound |-> TRUE, raised |-> FALSE,
           events |-> RemoveAllBut(<<>>), detected |-> {},
           scan |-> ScanInit(cache) ]
    ELSE IF log_exists
    THEN LET st == ScanBackwards(ScanInit(cache), log, Len(log)) IN
         [ cache |-> st.cache, rebound |-> FALSE, raised |-> st.raised,
           events |-> IF st.raised THEN <<>> ELSE RemoveAllBut(st.owned_title_ids),
           detected |-> Range(st.owned_title_ids) \cap TitleIds,
           scan |-> st ]
    ELSE [ cache |-> AppendMissing(cache, catalog_keys), rebound |-> FALSE,
           raised |-> FALSE, events |-> <<>>, detected |-> TitleIds,
           scan |-> ScanInit(cache) ]

---------------------------------------------------------------------------
(* Local presence detector: get_local_games *)

\* get_local_games without the check_if_process_exists test of line 197
get_local_games_NoLiveness(pids, paths, alive) ==
    [ i \in 1..Len(total_games_cache) |->
        LET title_id == get_game_title_id_from_ros_title_id(total_games_cache[i].game_id) IN
        IF title_id \in paths
        THEN IF title_id \in DOMAIN pids
             THEN create_local_game_from_title_id(title_id, TRUE, TRUE)
             ELSE create_local_game_from_title_id(title_id, FALSE, TRUE)
        ELSE create_local_game_from_title_id(title_id, FALSE, FALSE) ]

\* paths: the titles LocalClient.get_path_to_game finds a path for
\* alive: the pids check_if_process_exists answers True for
get_local_games(pids, paths, alive) ==
    [ i \in 1..Len(total_games_cache) |->
        LET title_id == get_game_title_id_from_ros_title_id(total_games_cache[i].game_id) IN
        IF title_id \in paths
        THEN IF title_id \in DOMAIN pids /\ pids[title_id][1] \in alive
             THEN create_local_game_from_title_id(title_id, TRUE, TRUE)
             ELSE create_local_game_from_title_id(title_id, FALSE, TRUE)
        ELSE create_local_game_from_title_id(title_id, FALSE, FALSE) ]

---------------------------------------------------------------------------
(* Session: authenticate, pass_login_credentials *)

\* stored_credentials as authenticate receives them: none, a cookie jar that
\* unpickles, or one that does not
StoredCredentials == {"none", "valid", "malformed"}

\* authenticate without the retry of lines 52-54
authenticate_NoRetry(stored, ok1, ok2) ==
    IF stored = "none"
    THEN [result |-> "NextStep", identity_calls |-> <<>>]
    ELSE IF stored = "valid" /\ ok1
    THEN [result |-> "Authentication", identity_calls |-> <<TRUE>>]
    ELSE [result |-> "InvalidCredentials",
          identity_calls |-> IF stored = "valid" THEN <<FALSE>> ELSE <<>>]

\* authenticate(stored_credentials); ok1, ok2 are the outcomes of the first and
\* the second call of self._http_client.authenticate(), were they made.
\*   identity_calls  the outcomes of the calls made, in order
\*   result          what the handler returns or raises
authenticate(stored, ok1, ok2) ==
    IF stored = "none"
    THEN [result |-> "NextStep", identity_calls |-> <<>>]
    ELSE IF stored = "valid" /\ ok1
    THEN [result |-> "Authentication", identity_calls |-> <<TRUE>>]
    ELSE LET before == IF stored = "valid" THEN <<FALSE>> ELSE <<>>
             retry  == IF stored = "valid" THEN ok2 ELSE ok1
         IN  IF retry
             THEN [result |-> "Authentication", identity_calls |-> Append(before, TRUE)]
             ELSE [result |-> "InvalidCredentials", identity_calls |-> Append(before, FALSE)]

\* pass_login_credentials trying the identity call a second time after a failure
pass_login_credentials_Retry(ok) ==
    IF ok
    THEN [result |-> "Authentication", identity_calls |-> <<TRUE>>]
    ELSE [result |-> "InvalidCredentials", identity_calls |-> <<FALSE, FALSE>>]

\* pass_login_credentials(step, credentials, cookies)
pass_login_credentials(ok) ==
    IF ok
    THEN [result |-> "Authentication", identity_calls |-> <<TRUE>>]
    ELSE [result |-> "InvalidCredentials", identity_calls |-> <<FALSE>>]

---------------------------------------------------------------------------
(* History record *)

NoCall ==
    [ op |-> "init", events |-> <<>>,
      \* check_for_new_games
      old_owned |-> <<>>, is_auth |-> FALSE, log_exists |-> FALSE, log |-> <<>>,
      scan |-> ScanInit(<<>>), detected |-> {}, raised |-> FALSE,
      \* check_game_statuses
      old_local |-> <<>>, paths |-> {}, alive |-> {},
      \* launch_game, install_game, uninstall_game
      title |-> "-", pid |-> "-", old_pid |-> "-",
      \* authenticate, pass_login_credentials
      stored |-> "-", identity_calls |-> <<>>, result |-> "-",
      \* tick
      started |-> {} ]

\* what LocalClient.launch_game_from_title_id returns: a pid, "-1" on failure
LaunchResults == {"-1", "pid1"}

NoTasks == [ready |-> 0, sleeping |-> 0, aborted |-> FALSE]

---------------------------------------------------------------------------
(* Initial state: RockstarPlugin.__init__ *)

Init ==
    /\ authenticated = FALSE
    /\ owned_games_cache = <<>>
    /\ local_games_cache = <<>>
    /\ running_games_pids = [t \in {} |-> <<"-1", TRUE>>]
    /\ checking_for_new_games = FALSE
    /\ updating_game_statuses = FALSE
    /\ tasks = [own |-> NoTasks, pres |-> NoTasks]
    /\ last = NoCall

---------------------------------------------------------------------------
(* tick *)

\* asyncio.create_task puts the new task on the loop's ready queue (call_soon,
\* first in first out); tick() is called from a callback of the same loop, which
\* comes round again only after the queue has run: a task made by one tick has
\* run to its first suspending await before the next tick.
LoopRanReadyTasks == tasks.own.ready = 0 /\ tasks.pres.ready = 0

\* the tasks of coroutine k that have not finished
InProgress(k) == tasks[k].ready + tasks[k].sleeping

\* tick without the test of self.checking_for_new_games
TickStartsOwn_Always == TRUE

\* `if not self.checking_for_new_games`
TickStartsOwn == ~checking_for_new_games

\* `if not self.updating_game_statuses`
TickStartsPres == ~updating_game_statuses

Tick ==
    /\ LoopRanReadyTasks
    /\ LET own  == TickStartsOwn /\ InProgress("own") < MaxTasks
           pres == TickStartsPres /\ InProgress("pres") < MaxTasks
       IN  /\ tasks' = [tasks EXCEPT
                          !.own.ready  = IF own THEN @ + 1 ELSE @,
                          !.pres.ready = IF pres THEN @ + 1 ELSE @]
           /\ last' = [NoCall EXCEPT !.op = "tick",
                          !.started = (IF own THEN {"own"} ELSE {})
                                        \cup (IF pres THEN {"pres"} ELSE {})]
    /\ UNCHANGED <<authenticated, owned_games_cache, local_games_cache,
                   running_games_pids, checking_for_new_games, updating_game_statuses>>

---------------------------------------------------------------------------
(* check_for_new_games *)

\* `old_games_cache = self.owned_games_cache` names the list object, it does not
\* copy it: after get_owned_games, old_games_cache holds what that list holds
\* then (before is the list's content when the name was bound, r the call's result)
old_games_cache(before, r) == IF r.rebound THEN before ELSE r.cache

\* the add_game notifications of lines 213-215
AddedGames(old, new) ==
    LET fresh == Filter(new, Range(new) \ Range(old))
    IN  [i \in 1..Len(fresh) |-> AddGame(fresh[i])]

\* From the task's first step to `await asyncio.sleep(60)`, or to the exception
\* that ends the task (get_owned_games has no await in it)
CheckForNewGamesRun(log_exists, log) ==
    /\ tasks.own.ready > 0
    /\ LET r   == get_owned_games(owned_games_cache, authenticated, log_exists, log)
           old == old_games_cache(owned_games_cache, r)
           new == r.cache
       IN  /\ checking_for_new_games' = TRUE
           /\ owned_games_cache' = r.cache
           /\ tasks' = IF r.raised
                       THEN [tasks EXCEPT !.own.ready = @ - 1, !.own.aborted = TRUE]
                       ELSE [tasks EXCEPT !.own.ready = @ - 1, !.own.sleeping = @ + 1]
           /\ last' = [NoCall EXCEPT
                          !.op = "check_for_new_games",
                          !.old_owned = owned_games_cache,
                          !.is_auth = authenticated,
                          !.log_exists = log_exists,
                          !.log = log,
                          !.scan = r.scan,
                          !.detected = r.detected,
                          !.raised = r.raised,
                          !.events = IF r.raised THEN r.events
                                     ELSE r.events \o AddedGames(old, new)]
    /\ UNCHANGED <<authenticated, local_games_cache, running_games_pids,
                   updating_game_statuses>>

\* check_for_new_games ending without line 217
CheckForNewGamesWake_KeepsFlag ==
    /\ tasks.own.sleeping > 0
    /\ tasks' = [tasks EXCEPT !.own.sleeping = @ - 1]
    /\ last' = [NoCall EXCEPT !.op = "check_for_new_games.wake"]
    /\ UNCHANGED <<authenticated, owned_games_cache, local_games_cache,
                   running_games_pids, checking_for_new_games, updating_game_statuses>>

\* after the sleep: `self.checking_for_new_games = False`
CheckForNewGamesWake ==
    /\ tasks.own.sleeping > 0
    /\ checking_for_new_games' = FALSE
    /\ tasks' = [tasks EXCEPT !.own.sleeping = @ - 1]
    /\ last' = [NoCall EXCEPT !.op = "check_for_new_games.wake"]
    /\ UNCHANGED <<authenticated, owned_games_cache, local_games_cache,
                   running_games_pids, updating_game_statuses>>

---------------------------------------------------------------------------
(* check_game_statuses *)

\* check_game_statuses dropping from the running-process table the entries
\* whose handle is gone
CheckGameStatusesRun_Prunes(paths, alive) ==
    /\ tasks.pres.ready > 0
    /\ LET local_games == get_local_games(running_games_pids, paths, alive)
           tracked == {t \in DOMAIN running_games_pids : running_games_pids[t][1] \in alive}
       IN  /\ updating_game_statuses' = TRUE
           /\ local_games_cache' = local_games
           /\ running_games_pids' = [t \in tracked |-> running_games_pids[t]]
           /\ tasks' = [tasks EXCEPT !.pres.ready = @ - 1, !.pres.sleeping = @ + 1]
           /\ last' = [NoCall EXCEPT
                          !.op = "check_game_statuses",
                          !.old_local = local_games_cache,
                          !.paths = paths,
                          !.alive = alive,
                          !.events = [i \in 1..Len(local_games) |->
                                          UpdateLocalGameStatus(local_games[i])]]
    /\ UNCHANGED <<authenticated, owned_games_cache, checking_for_new_games>>

\* From the task's first step to `await asyncio.sleep(5)`
CheckGameStatusesRun(paths, alive) ==
    /\ tasks.pres.ready > 0
    /\ LET local_games == get_local_games(running_games_pids, paths, alive)
       IN  /\ updating_game_statuses' = TRUE
           /\ local_games_cache' = local_games
           /\ tasks' = [tasks EXCEPT !.pres.ready = @ - 1, !.pres.sleeping = @ + 1]
           /\ last' = [NoCall EXCEPT
                          !.op = "check_game_statuses",
                          !.old_local = local_games_cache,
                          !.paths = paths,
                          !.alive = alive,
                          !.events = [i \in 1..Len(local_games) |->
                                          UpdateLocalGameStatus(local_games[i])]]
    /\ UNCHANGED <<authenticated, owned_games_cache, running_games_pids,
                   checking_for_new_games>>

\* after the sleep: `self.updating_game_statuses = False`
CheckGameStatusesWake ==
    /\ tasks.pres.sleeping > 0
    /\ updating_game_statuses' = FALSE
    /\ tasks' = [tasks EXCEPT !.pres.sleeping = @ - 1]
    /\ last' = [NoCall EXCEPT !.op = "check_game_statuses.wake"]
    /\ UNCHANGED <<authenticated, owned_games_cache, local_games_cache,
                   running_games_pids, checking_for_new_games>>

---------------------------------------------------------------------------
(* Host requests *)

\* d[k] extended by v instead of assigned: one more entry for k at every call
Put_Accumulate(d, k, v) ==
    [x \in (DOMAIN d) \cup {k} |->
        IF x = k THEN (IF k \in DOMAIN d THEN d[k] \o v ELSE v) ELSE d[x]]

\* d[k] = v on a Python dict
Put(d, k, v) == [x \in (DOMAIN d) \cup {k} |-> IF x = k THEN v ELSE d[x]]

\* launch_game notifying the host whatever launch_game_from_title_id returned
LaunchEvents_Always(game_id, pid) ==
    <<UpdateLocalGameStatus([game_id |-> game_id, local_game_state |-> "Running"])>>

\* the update_local_game_status notification of launch_game (line 230-231)
LaunchEvents(game_id, pid) ==
    IF pid # "-1"
    THEN <<UpdateLocalGameStatus([game_id |-> game_id, local_game_state |-> "Running"])>>
    ELSE <<>>

\* launch_game(game_id); pid is what launch_game_from_title_id returns
LaunchGame(game_id, pid) ==
    /\ LET title_id == get_game_title_id_from_ros_title_id(game_id)
       IN  /\ running_games_pids' = Put(running_games_pids, title_id, <<pid, TRUE>>)
           /\ last' = [NoCall EXCEPT !.op = "launch_game", !.title = title_id,
                          !.pid = pid,
                          !.old_pid = IF title_id \in DOMAIN running_games_pids
                                      THEN running_games_pids[title_id][1] ELSE "-",
                          !.old_local = local_games_cache,
                          !.events = LaunchEvents(game_id, pid)]
    /\ UNCHANGED <<authenticated, owned_games_cache, local_games_cache,
                   checking_for_new_games, updating_game_statuses, tasks>>

\* install_game(game_id)
InstallGame(game_id) ==
    /\ LET title_id == get_game_title_id_from_ros_title_id(game_id)
       IN  last' = [NoCall EXCEPT !.op = "install_game", !.title = title_id,
                       !.old_local = local_games_cache,
                       !.events = <<UpdateLocalGameStatus(
                           [game_id |-> game_id, local_game_state |-> "Installed"])>>]
    /\ UNCHANGED <<authenticated, owned_games_cache, local_games_cache,
                   running_games_pids, checking_for_new_games,
                   updating_game_statuses, tasks>>

\* uninstall_game(game_id)
UninstallGame(game_id) ==
    /\ LET title_id == get_game_title_id_from_ros_title_id(game_id)
       IN  last' = [NoCall EXCEPT !.op = "uninstall_game", !.title = title_id,
                       !.old_local = local_games_cache,
                       !.events = <<UpdateLocalGameStatus(
                           [game_id |-> game_id, local_game_state |-> "None_"])>>]
    /\ UNCHANGED <<authenticated, owned_games_cache, local_games_cache,
                   running_games_pids, checking_for_new_games,
                   updating_game_statuses, tasks>>

\* the host's game ids: the catalog's rosTitleId values
GameIds == {games_cache[t].rosTitleId : t \in TitleIds}

\* is_authenticated() after a handler that made identity calls: the session is
\* authenticated exactly when the last call succeeded
SessionAfter(before, r) ==
    IF r.identity_calls = <<>> THEN before ELSE r.identity_calls[Len(r.identity_calls)]

Authenticate(stored, ok1, ok2) ==
    /\ LET r == authenticate(stored, ok1, ok2)
       IN  /\ authenticated' = SessionAfter(authenticated, r)
           /\ last' = [NoCall EXCEPT !.op = "authenticate", !.stored = stored,
                          !.identity_calls = r.identity_calls, !.result = r.result]
    /\ UNCHANGED <<owned_games_cache, local_games_cache, running_games_pids,
                   checking_for_new_games, updating_game_statuses, tasks>>

PassLoginCredentials(ok) ==
    /\ LET r == pass_login_credentials(ok)
       IN  /\ authenticated' = SessionAfter(authenticated, r)
           /\ last' = [NoCall EXCEPT !.op = "pass_login_credentials",
                          !.identity_calls = r.identity_calls, !.result = r.result]
    /\ UNCHANGED <<owned_games_cache, local_games_cache, running_games_pids,
                   checking_for_new_games, updating_game_statuses, tasks>>

\* the remote session expires
SessionExpires ==
    /\ authenticated
    /\ authenticated' = FALSE
    /\ last' = [NoCall EXCEPT !.op = "session_expires"]
    /\ UNCHANGED <<owned_games_cache, local_games_cache, running_games_pids,
                   checking_for_new_games, updating_game_statuses, tasks>>

---------------------------------------------------------------------------
(* Specifications *)

\* what the launcher has written when a pass reads the log: no file, or a log
NoLogFile == <<FALSE, <<>>>>
LogFiles == {NoLogFile} \cup {<<TRUE, log>> : log \in Logs}

\* The session, the ownership pass over every log and the scheduling of both
\* passes, on a machine with no title installed and no launch requested
Next ==
    \/ Tick
    \/ \E f \in LogFiles : CheckForNewGamesRun(f[1], f[2])
    \/ CheckForNewGamesWake
    \/ CheckGameStatusesRun({}, {})
    \/ CheckGameStatusesWake
    \/ \E stored \in StoredCredentials : \E ok1, ok2 \in BOOLEAN :
           Authenticate(stored, ok1, ok2)
    \/ \E ok \in BOOLEAN : PassLoginCredentials(ok)
    \/ SessionExpires

Spec == Init /\ [][Next]_vars

\* The presence pass and the host's launch, install and uninstall requests over
\* every answer of the Local Install Manager and of the process oracle, with
\* the ownership pass of a session that never logs in
NextPresence ==
    \/ Tick
    \/ CheckForNewGamesRun(FALSE, <<>>)
    \/ CheckForNewGamesWake
    \/ \E paths \in SUBSET TitleIds : \E alive \in SUBSET LaunchResults :
           CheckGameStatusesRun(paths, alive)
    \/ CheckGameStatusesWake
    \/ \E game_id \in GameIds : \E pid \in LaunchResults : LaunchGame(game_id, pid)
    \/ \E game_id \in GameIds : InstallGame(game_id)
    \/ \E game_id \in GameIds : UninstallGame(game_id)

SpecPresence == Init /\ [][NextPresence]_vars

\* The host calls tick() once a second, the loop runs every task that is ready
\* and every sleep ends
FairSpec ==
    /\ Spec
    /\ WF_vars(Tick)
    /\ WF_vars(\E f \in LogFiles : CheckForNewGamesRun(f[1], f[2]))
    /\ WF_vars(CheckForNewGamesWake)
    /\ WF_vars(CheckGameStatusesRun({}, {}))
    /\ WF_vars(CheckGameStatusesWake)

\* The log files of the scheduling specifications: none, an empty one, one
\* with a line for a catalog title, one with a line that makes the pass raise
FewLogFiles ==
    { NoLogFile,
      <<TRUE, <<>>>>,
      <<TRUE, <<LogLine(FALSE, TRUE, FALSE, "A")>>>>,
      <<TRUE, <<LogLine(FALSE, TRUE, FALSE, "X")>>>> }

\* Ticks and both passes with the session coming and going, over FewLogFiles
NextSched ==
    \/ Tick
    \/ \E f \in FewLogFiles : CheckForNewGamesRun(f[1], f[2])
    \/ CheckForNewGamesWake
    \/ CheckGameStatusesRun({}, {})
    \/ CheckGameStatusesWake
    \/ \E ok \in BOOLEAN : PassLoginCredentials(ok)
    \/ SessionExpires

\* The host calls tick() once a second, the loop runs every task that is ready
\* and every sleep ends
FairSchedSpec ==
    /\ Init /\ [][NextSched]_vars
    /\ WF_vars(Tick)
    /\ WF_vars(\E f \in FewLogFiles : CheckForNewGamesRun(f[1], f[2]))
    /\ WF_vars(CheckForNewGamesWake)
    /\ WF_vars(CheckGameStatusesRun({}, {}))
    /\ WF_vars(CheckGameStatusesWake)

\* Both passes with their inputs together: the session, the ownership pass over
\* FewLogFiles, the presence pass over every answer, and launch requests
NextBoth ==
    \/ Tick
    \/ \E f \in FewLogFiles : CheckForNewGamesRun(f[1], f[2])
    \/ CheckForNewGamesWake
    \/ \E paths \in SUBSET TitleIds : \E alive \in SUBSET LaunchResults :
           CheckGameStatusesRun(paths, alive)
    \/ CheckGameStatusesWake
    \/ \E game_id \in GameIds : \E pid \in LaunchResults : LaunchGame(game_id, pid)
    \/ PassLoginCredentials(TRUE)
    \/ SessionExpires

SpecBoth == Init /\ [][NextBoth]_vars

---------------------------------------------------------------------------
(* Properties *)

\* the titles of the games in a cache
TitlesOf(cache) == {t \in TitleIds : In(create_game_from_title_id(t), cache)}

\* how many times notification e is in the sequence events
Count(e, events) == Cardinality({i \in 1..Len(events) : events[i] = e})

\* the state right after an ownership pass that ran through to its sleep
OwnPassRan == last.op = "check_for_new_games" /\ ~last.raised

\* the state right after an ownership pass that scanned a log to the end of the scan
LogScanned == OwnPassRan /\ last.is_auth /\ last.log_exists

\* C1: an ownership pass sends exactly one add_game for every title it detects
\* as owned that was not in the owned cache when the pass began, and no add_game
\* for a title that was in the cache
C1_AddedOncePerNewTitle ==
    OwnPassRan =>
        \A t \in TitleIds :
            LET n == Count(AddGame(create_game_from_title_id(t)), last.events) IN
            /\ (t \in last.detected /\ t \notin TitlesOf(last.old_owned)) => n = 1
            /\ (t \in TitlesOf(last.old_owned)) => n = 0

\* C2: an ownership pass sends remove_game for a title exactly when the title
\* was in the owned cache when the pass began and is not detected as owned
C2_RemovedIffNoLongerOwned ==
    OwnPassRan =>
        \A t \in TitleIds :
            Count(RemoveGame(games_cache[t].rosTitleId), last.events) > 0
                <=> (t \in TitlesOf(last.old_owned) /\ t \notin last.detected)

\* C3: after an ownership pass the owned cache holds exactly the titles the
\* pass detected as owned
C3_CacheIsLastDetection ==
    OwnPassRan => TitlesOf(owned_games_cache) = last.detected

\* C4: at most one ownership pass and at most one presence pass is in progress
C4_NoOverlap == InProgress("own") <= 1 /\ InProgress("pres") <= 1

\* C4 witness: a tick came while an ownership pass was in its sleep and started
\* no second one
C4_Witness ==
    /\ last.op = "tick"
    /\ tasks.own.sleeping = 1
    /\ "own" \notin last.started
    /\ "pres" \in last.started

\* C5: after an ownership pass has ended with an exception, a later tick
\* starts an ownership pass again
C5_AbortedPassIsRetried ==
    [](tasks.own.aborted => <>("own" \in last.started))

\* C6: a presence pass sends update_local_game_status only for a title whose
\* computed state differs from the state the cache held for it
C6_OnlyChangesReported ==
    last.op = "check_game_statuses" =>
        \A i \in 1..Len(last.events) :
            [game_id |-> last.events[i].game_id,
             local_game_state |-> last.events[i].state] \notin Range(last.old_local)

\* C7: authenticate with stored credentials makes at most two identity calls,
\* the second one only after the first failed, and one retry after a failed
\* first call; it returns Authentication when the last call made succeeded
\* and raises InvalidCredentials when it failed
C7_OneRetry ==
    (last.op = "authenticate" /\ last.stored # "none") =>
        LET calls == last.identity_calls IN
        /\ Len(calls) \in 1..2
        /\ Len(calls) = 2 => ~calls[1]
        /\ (last.stored = "valid" /\ ~calls[1]) => Len(calls) = 2
        /\ calls[Len(calls)] => last.result = "Authentication"
        /\ ~calls[Len(calls)] => last.result = "InvalidCredentials"

\* C7 witness: the first identity call failed, the retry succeeded
C7_Witness ==
    /\ last.op = "authenticate"
    /\ last.identity_calls = <<FALSE, TRUE>>
    /\ last.result = "Authentication"
    /\ authenticated

\* C8: every game in the owned cache is the game of a catalog key
C8_OwnedSubsetOfCatalog ==
    \A i \in 1..Len(owned_games_cache) :
        \E t \in TitleIds : owned_games_cache[i] = create_game_from_title_id(t)

\* C8 witness: a pass read a log with an "on branch" line of an identifier that
\* is no catalog key, after a line that put a game in the cache
C8_Witness ==
    /\ last.op = "check_for_new_games"
    /\ last.raised
    /\ \E i \in 1..Len(last.log) : last.log[i].title_id \notin TitleIds
    /\ owned_games_cache # <<>>
    /\ last.old_owned = <<>>

\* a line that counts towards checked_games_count
IsEvidence(line) == ((~line.launcher) /\ line.on_branch) \/ line.no_branches

\* the titles with evidence among the n most recent lines of log
Resolved(log, n) ==
    {log[i].title_id : i \in {j \in (Len(log) - n + 1)..Len(log) : IsEvidence(log[j])}}

\* C9: the stop counter of the scan is the number of distinct titles resolved
\* by the lines read, and the scan stops only when that number is the catalog size
C9_CounterCountsDistinctTitles ==
    LogScanned =>
        LET resolved == Resolved(last.log, last.scan.lines_read) IN
        /\ last.scan.checked_games_count = Cardinality(resolved)
        /\ last.scan.stopped <=> Cardinality(resolved) = total_games_count

\* the index of the most recent evidence line for title t in log, 0 if none
MostRecentEvidence(log, t) ==
    LET at == {i \in 1..Len(log) : IsEvidence(log[i]) /\ log[i].title_id = t}
    IN  IF at = {} THEN 0 ELSE CHOOSE i \in at : \A j \in at : j <= i

\* C10: a title whose most recent evidence in the log is a "no branches!" line
\* is not detected as owned, and the pass does not put it in the owned cache
C10_LastWriteWins ==
    LogScanned =>
        \A t \in TitleIds :
            LET i == MostRecentEvidence(last.log, t) IN
            (i > 0 /\ last.log[i].no_branches) =>
                /\ t \notin last.detected
                /\ t \in TitlesOf(owned_games_cache) => t \in TitlesOf(last.old_owned)

\* C11: with an authenticated session and no log file, get_owned_games leaves
\* (and returns) the owned cache holding every catalog game exactly once,
\* whatever it held before
C11_MissingLogAllOwned ==
    (last.op = "check_for_new_games" /\ last.is_auth /\ ~last.log_exists) =>
        /\ ~last.raised
        /\ TitlesOf(owned_games_cache) = TitleIds
        /\ Len(owned_games_cache) = Cardinality(TitleIds)
        /\ last.detected = TitleIds

\* C11 witness: the log is missing and the cache held one of the two games before
C11_Witness ==
    /\ last.op = "check_for_new_games"
    /\ last.is_auth
    /\ ~last.log_exists
    /\ Len(last.old_owned) = 1
    /\ Len(owned_games_cache) = 2

\* C12: an ownership pass of a session that is not authenticated leaves the
\* owned cache empty, sends remove_game for every title that was in the cache
\* and sends no add_game
C12_UnauthenticatedOwnsNothing ==
    (last.op = "check_for_new_games" /\ ~last.is_auth) =>
        /\ ~last.raised
        /\ owned_games_cache = <<>>
        /\ last.detected = {}
        /\ \A t \in TitlesOf(last.old_owned) :
               Count(RemoveGame(games_cache[t].rosTitleId), last.events) >= 1
        /\ \A i \in 1..Len(last.events) : last.events[i].type # "add_game"

\* C12 witness: the session was lost while the cache held games
C12_Witness ==
    /\ last.op = "check_for_new_games"
    /\ ~last.is_auth
    /\ last.old_owned # <<>>
    /\ owned_games_cache = <<>>

\* the records of title t in a local-presence cache
RecordsOf(cache, t) ==
    {i \in 1..Len(cache) : cache[i].game_id = games_cache[t].rosTitleId}

\* C13: after a presence pass the local-presence cache holds one record per
\* catalog title: None_ when the install manager has no path for it, Running
\* when it has one and the title's tracked handle is alive, Installed otherwise
C13_PresenceStates ==
    last.op = "check_game_statuses" =>
        /\ Len(local_games_cache) = Cardinality(TitleIds)
        /\ \A t \in TitleIds :
               /\ Cardinality(RecordsOf(local_games_cache, t)) = 1
               /\ \A i \in RecordsOf(local_games_cache, t) :
                      local_games_cache[i].local_game_state =
                          IF t \notin last.paths THEN "None_"
                          ELSE IF /\ t \in DOMAIN running_games_pids
                                  /\ running_games_pids[t][1] \in last.alive
                               THEN "Running"
                               ELSE "Installed"

\* C13 witness: an installed title whose tracked handle the oracle reports as
\* gone is recorded as Installed
C13_Witness ==
    /\ last.op = "check_game_statuses"
    /\ \E t \in TitleIds :
           /\ t \in last.paths
           /\ t \in DOMAIN running_games_pids
           /\ running_games_pids[t][1] = "pid1"
           /\ "pid1" \notin last.alive
           /\ \E i \in RecordsOf(local_games_cache, t) :
                  local_games_cache[i].local_game_state = "Installed"

\* the state a host request asks for
RequestedState(op) ==
    IF op = "launch_game" THEN "Running"
    ELSE IF op = "install_game" THEN "Installed"
    ELSE "None_"

\* a launch that returned a handle, an install or an uninstall has just returned,
\* and a presence pass had recorded the title before
RequestReturned ==
    /\ \/ last.op = "launch_game" /\ last.pid # "-1"
       \/ last.op = "install_game"
       \/ last.op = "uninstall_game"
    /\ RecordsOf(last.old_local, last.title) # {}

\* C14: right after launch_game, install_game or uninstall_game returns, the
\* local-presence cache's record of the requested title has the requested
\* state and the records of the other titles are as before
C14_RequestsUpdateCache ==
    RequestReturned =>
        /\ RecordsOf(local_games_cache, last.title) # {}
        /\ \A i \in RecordsOf(local_games_cache, last.title) :
               local_games_cache[i].local_game_state = RequestedState(last.op)
        /\ \A t \in TitleIds \ {last.title} :
               {local_games_cache[i] : i \in RecordsOf(local_games_cache, t)}
                   = {last.old_local[i] : i \in RecordsOf(last.old_local, t)}

\* C15: the owned cache changes only in the step of an ownership pass that runs
\* through, and the local-presence cache only in the step of a presence pass:
\* what a reader finds between two awaits is what a completed pass left
C15_CachesHoldCompletedPass ==
    [][ /\ owned_games_cache' # owned_games_cache
            => (last'.op = "check_for_new_games" /\ ~last'.raised)
        /\ local_games_cache' # local_games_cache
            => last'.op = "check_game_statuses" ]_vars

\* C16: the running-process table holds, for a title, at most one entry: one
\* pair of a handle and True
C16_OneEntryPerTitle ==
    /\ DOMAIN running_games_pids \subseteq TitleIds
    /\ \A t \in DOMAIN running_games_pids :
           running_games_pids[t] \in {<<pid, TRUE>> : pid \in LaunchResults}

\* C16 witness: a title that was tracked is launched again, with both titles tracked
C16_Witness ==
    /\ last.op = "launch_game"
    /\ last.old_pid = "pid1"
    /\ last.pid = "pid1"
    /\ DOMAIN running_games_pids = TitleIds

\* C20: launch_game sends update_local_game_status(Running) for the game exactly
\* when the handle returned is not "-1", and in both cases the title's entry of
\* the running-process table is the returned value
C20_LaunchNotifiesOnHandle ==
    last.op = "launch_game" =>
        /\ last.events =
               IF last.pid # "-1"
               THEN <<[type |-> "update_local_game_status",
                       game_id |-> games_cache[last.title].rosTitleId,
                       state |-> "Running"]>>
               ELSE <<>>
        /\ last.title \in DOMAIN running_games_pids
        /\ running_games_pids[last.title][1] = last.pid

\* C20 witness: a failed launch of a title whose earlier launch had returned a handle
C20_Witness ==
    /\ last.op = "launch_game"
    /\ last.old_pid = "pid1"
    /\ last.pid = "-1"
    /\ running_games_pids[last.title] = <<"-1", TRUE>>
    /\ last.events = <<>>

\* C17: pass_login_credentials makes the identity call once, raises
\* InvalidCredentials when it fails and returns Authentication when it succeeds;
\* authenticate without stored credentials returns the NextStep directive and
\* makes no identity call
C17_LoginCallsOnce ==
    /\ last.op = "pass_login_credentials" =>
           /\ Len(last.identity_calls) = 1
           /\ last.identity_calls[1] => last.result = "Authentication"
           /\ ~last.identity_calls[1] => last.result = "InvalidCredentials"
    /\ (last.op = "authenticate" /\ last.stored = "none") =>
           /\ last.identity_calls = <<>>
           /\ last.result = "NextStep"

\* C17 witness: the identity call of pass_login_credentials failed
C17_Witness ==
    /\ last.op = "pass_login_credentials"
    /\ last.identity_calls = <<FALSE>>
    /\ last.result = "InvalidCredentials"

\* C18: a tick starts a pass of a kind exactly when the flag of that kind is
\* clear (so none while the pass runs or sleeps), and a pass that has reached
\* its sleep clears its flag in the end
C18_TickStartsWhenFlagClear ==
    /\ [](last.op = "tick" =>
            /\ ("own" \in last.started) <=> ~checking_for_new_games
            /\ ("pres" \in last.started) <=> ~updating_game_statuses)
    /\ [](tasks.own.sleeping > 0 => <>(~checking_for_new_games))
    /\ [](tasks.pres.sleeping > 0 => <>(~updating_game_statuses))

\* C18 witness: a tick that came during the sleep of a presence pass started an
\* ownership pass and no presence pass
C18_Witness ==
    /\ last.op = "tick"
    /\ tasks.pres.sleeping = 1
    /\ updating_game_statuses
    /\ last.started = {"own"}

\* C19: a step of an ownership pass leaves the local-presence cache and the
\* running-process table as they are, a step of a presence pass leaves the
\* owned cache and the table as they are, and only launch_game changes the table
C19_PassesTouchOwnState ==
    [][ /\ last'.op \in {"check_for_new_games", "check_for_new_games.wake"}
            => /\ local_games_cache' = local_games_cache
               /\ running_games_pids' = running_games_pids
        /\ last'.op \in {"check_game_statuses", "check_game_statuses.wake"}
            => /\ owned_games_cache' = owned_games_cache
               /\ running_games_pids' = running_games_pids
        /\ running_games_pids' # running_games_pids => last'.op = "launch_game" ]_vars

\* C19 witness: both passes are in their sleep, with games owned, presence
\* recorded and a handle tracked
C19_Witness ==
    /\ tasks.own.sleeping = 1
    /\ tasks.pres.sleeping = 1
    /\ last.op = "check_game_statuses"
    /\ owned_games_cache # <<>>
    /\ DOMAIN running_games_pids # {}

====
